---- MODULE Spec2Model ----
(***************************************************************************)
(* Momentum FC (src/app.py): the poll cycle that turns a live-match feed   *)
(* into stored matches and pressure snapshots, the pure momentum           *)
(* functions, and the prediction game's scoring.                           *)
(*                                                                         *)
(* Real numbers.  A pressure index is a multiple of 1/9 (minute*20/90 =    *)
(* 2*minute/9), so it is held as the integer Scale * pressure; every       *)
(* comparison is made on exact fractions.                                  *)
(***************************************************************************)
EXTENDS Integers, Sequences, FiniteSets, TLC

\* ------------------------------------------------------------------ bounds
\* Highest score a team has in the inputs of the pure functions.
MaxGoals == 5
\* Longest run of equal leading values in a forecast input (the series is
\* that run followed by up to three free values, so it can exceed ten).
MaxPad == 9
\* Snapshots kept per match.  The code keeps 2000 (the OFFSET of the DELETE in
\* poll_live_matches); the model keeps this many so that trimming is reached.
SnapshotCap == 2
\* Rows the snapshots table's AUTOINCREMENT key may hand out: in the runs on
\* the small feeds, and in the runs on every feed of Feeds.
MaxSnapshotId == 4
MaxFeedRows == 3
\* The same in the runs with the prediction game.
MaxGameRows == 2
\* Rows of users and of predictions.
MaxUsers == 2
MaxPredictions == 2
\* Seconds the wall clock may advance.
MaxClock == 1
\* Match ids the feed delivers: 1..MaxMatchId.
MaxMatchId == 2
\* Longest list of snapshots handed to the chart.
MaxChartLen == 3

\* Fixed-point denominator of a pressure index: (minute / 90) * 20 is
\* exactly 2 * minute / 9.
Scale == 9

\* Python's None / SQL NULL
NULL == "NULL"

VARIABLES
    now,          \* wall clock, in seconds
    running,      \* the process is alive
    api_status,   \* the global api_status dict
    matches,      \* table matches: id -> row
    snapshots,    \* table snapshots: a set of rows
    snapshot_seq, \* last AUTOINCREMENT id of snapshots
    users,        \* table users: a set of rows
    predictions,  \* table predictions: a set of rows
    referrals,    \* table referrals: a set of rows
    pc,           \* where each caller of poll_live_matches stands
    fetched,      \* poll_live_matches' local matches as fetched, per caller
    is_demo,      \* poll_live_matches' local is_demo, per caller
    seen_ids,     \* poll_live_matches' local seen_ids, per caller
    pending,      \* score_predictions' local preds, per caller
    tx,           \* the open write transaction of poll_live_matches, if any
    registering,  \* registrations between their two commits
    view,         \* the snapshots the last match_dashboard request read
    calc          \* the arguments and result of a pure-function application

store == <<matches, snapshots, snapshot_seq, users, predictions, referrals>>
locals == <<pc, fetched, is_demo, seen_ids, pending, tx, registering>>
vars == <<now, running, api_status, store, locals, view, calc>>

\* ------------------------------------------------------- pure functions
RECURSIVE SeqSum(_)
SeqSum(s) == IF s = <<>> THEN 0 ELSE Head(s) + SeqSum(Tail(s))

\* np.clip on scalars
Clip(v, lo, hi) == IF v < lo THEN lo ELSE IF v > hi THEN hi ELSE v

\* calculate_pressure_index with score_impact left unclamped
PressureUnclampedScore(minute, score_home, score_away, previous_snapshots) ==
    LET score_diff == score_home - score_away
        up == IF previous_snapshots # <<>>
                 /\ score_home > previous_snapshots[1].score_home THEN 40 ELSE 0
        down == IF previous_snapshots # <<>>
                   /\ score_away > previous_snapshots[1].score_away THEN 40 ELSE 0
    IN  Clip((minute * 20 * Scale) \div 90 + Scale * (score_diff * 30 + up - down),
             -100 * Scale, 100 * Scale)

\* calculate_pressure_index(snapshot_data, previous_snapshots); the result is
\* Scale * pressure.  previous_snapshots is the rows newest first.
calculate_pressure_index(minute, score_home, score_away, previous_snapshots) ==
    LET base_pressure == (minute * 20 * Scale) \div 90
        score_diff == score_home - score_away
        score_impact == Clip(score_diff * 30, -60, 60)
        last == previous_snapshots[1]
        up == IF previous_snapshots # <<>> /\ score_home > last.score_home
              THEN 40 ELSE 0
        down == IF previous_snapshots # <<>> /\ score_away > last.score_away
                THEN 40 ELSE 0
        trend_impact == up - down
        pressure == base_pressure + Scale * (score_impact + trend_impact)
    IN  Clip(pressure, -100 * Scale, 100 * Scale)

\* snapshots[-10:]
LastTen(s) == IF Len(s) <= 10 THEN s ELSE SubSeq(s, Len(s) - 9, Len(s))

\* np.polyfit(x, y, 1)[0] for x = 0..n-1: the least-squares slope, as the
\* exact fraction num / den of the unscaled values (den > 0 for n >= 2).
polyfit_slope(y) ==
    LET n == Len(y)
        Sx == SeqSum([i \in 1..n |-> i - 1])
        Sxx == SeqSum([i \in 1..n |-> (i - 1) * (i - 1)])
        Sy == SeqSum(y)
        Sxy == SeqSum([i \in 1..n |-> (i - 1) * y[i]])
    IN  [num |-> n * Sxy - Sx * Sy, den |-> Scale * (n * Sxx - Sx * Sx)]

\* np.var(y): the population variance (ddof = 0), as an exact fraction.
np_var(y) ==
    LET n == Len(y)
        Sy == SeqSum(y)
        Syy == SeqSum([i \in 1..n |-> y[i] * y[i]])
    IN  [num |-> n * Syy - Sy * Sy, den |-> Scale * Scale * n * n]

\* get_forecast(snapshots) on the pressure_index column (Scale * pressure,
\* oldest first); returns level and probability.
\*
\* np.polyfit and np.var work in IEEE double precision, so the value
\* 50 + slope*10 - penalty carries a rounding error of either sign; int()
\* truncates, which only shows when the exact value is a whole number.  fp
\* (-1, 0 or 1) is the sign of that error.
get_forecast(pressures, fp) ==
    IF Len(pressures) < 3 THEN [level |-> "Inconclusive", probability |-> 0]
    ELSE
    LET y == LastTen(pressures)
        slope == polyfit_slope(y)
        variance == np_var(y)
        \* volatility_penalty = min(variance / 10, 20) = pnum / pden
        pden == 10 * variance.den
        pnum == IF variance.num >= 20 * pden THEN 20 * pden ELSE variance.num
        \* slope * 10 = qa + ra / slope.den,   penalty = qb + rb / pden
        qa == (10 * slope.num) \div slope.den
        ra == (10 * slope.num) % slope.den
        qb == pnum \div pden
        rb == pnum % pden
        whole == ra * pden = rb * slope.den
        floor == 50 + qa - qb - (IF ra * pden >= rb * slope.den THEN 0 ELSE 1)
        \* min(max(value, 0), 100) then int()
        probability == IF whole /\ fp < 0 /\ floor > 0 /\ floor <= 100
                       THEN floor - 1
                       ELSE Clip(floor, 0, 100)
        gt1 == slope.num > slope.den \/ (slope.num = slope.den /\ fp > 0)
        gtm1 == slope.num > -slope.den \/ (slope.num = -slope.den /\ fp > 0)
        level == IF gt1 THEN "High" ELSE IF gtm1 THEN "Moderate" ELSE "Low"
    IN  [level |-> level, probability |-> probability]

\* generate_svg_chart with the index divided by the number of snapshots
ChartDividedByLen(pressures, width, height, padding) ==
    LET n == Len(pressures)
    IN  IF n = 0 THEN [svg |-> FALSE, points |-> <<>>]
        ELSE [svg |-> TRUE,
              points |-> [i \in 1..n |->
                  [x |-> [num |-> padding * n + (i - 1) * (width - 2 * padding),
                          den |-> n],
                   y |-> [num |-> height * 100 * Scale
                                    - pressures[i] * (height - 2 * padding),
                          den |-> 2 * 100 * Scale]]]]

\* generate_svg_chart(snapshots, width, height, padding) on the
\* pressure_index column (Scale * pressure): "" for no snapshots, else the
\* svg with one point per snapshot.  The i-th point (i from 1 here, from 0 in
\* enumerate) has
\*   x = padding + (i-1) * (width - 2*padding) / max(n - 1, 1)
\*   y = height/2 - pressure * (height/2 - padding) / 100
\* held as exact fractions num / den.
generate_svg_chart(pressures, width, height, padding) ==
    LET n == Len(pressures)
        d == IF n - 1 > 1 THEN n - 1 ELSE 1
    IN  IF n = 0 THEN [svg |-> FALSE, points |-> <<>>]
        ELSE [svg |-> TRUE,
              points |-> [i \in 1..n |->
                  [x |-> [num |-> padding * d + (i - 1) * (width - 2 * padding),
                          den |-> d],
                   y |-> [num |-> height * 100 * Scale
                                    - pressures[i] * (height - 2 * padding),
                          den |-> 2 * 100 * Scale]]]]

\* ------------------------------------- inputs of the pure-function checks
CalcMinutes == {1, 45, 90, 120}
Goals == 0..MaxGoals
PriorRows == {<<>>} \cup {<<[score_home |-> h, score_away |-> a]>> : h, a \in Goals}
\* pressure values (Scale * pressure) a stored snapshot can hold
PressureSamples == {-100 * Scale, -10 * Scale, 0, 2, 10 * Scale, 70 * Scale, 100 * Scale}
Tails == {<<>>} \cup {<<a>> : a \in PressureSamples}
              \cup {<<a, b>> : a, b \in PressureSamples}
              \cup {<<a, b, c>> : a, b, c \in PressureSamples}
Pad(v, k) == [i \in 1..k |-> v]
Series == {Pad(v, k) \o t : v \in PressureSamples, k \in 0..MaxPad, t \in Tails}

\* Init draws the arguments; the one step applies the function to them.
PressureArgs ==
    {[fn |-> "calculate_pressure_index", done |-> FALSE, minute |-> m,
      score_home |-> h, score_away |-> a, previous |-> prev] :
        m \in CalcMinutes, h \in Goals, a \in Goals, prev \in PriorRows}
ForecastArgs ==
    {[fn |-> "get_forecast", done |-> FALSE, pressures |-> ys, fp |-> fp] :
        ys \in Series, fp \in {-1, 0, 1}}
\* pressures on a chart: the extremes, the centre, and a value between
ChartSamples == {-100 * Scale, 0, 2, 100 * Scale}
ChartSeries == UNION {[1..k -> ChartSamples] : k \in 0..MaxChartLen}
\* the dashboard's chart (the defaults) and generate_sparkline's
ChartSizes == {[width |-> 600, height |-> 200, padding |-> 20],
               [width |-> 120, height |-> 40, padding |-> 5]}
ChartArgs ==
    {[fn |-> "generate_svg_chart", done |-> FALSE, pressures |-> ys,
      width |-> z.width, height |-> z.height, padding |-> z.padding] :
        ys \in ChartSeries, z \in ChartSizes}

CalcInit ==
    /\ calc \in PressureArgs \cup ForecastArgs \cup ChartArgs
    /\ now = 0
    /\ running = TRUE
    /\ api_status = [status |-> "Unknown", last_check |-> <<>>, error |-> NULL]
    /\ matches = <<>>
    /\ snapshots = {}
    /\ snapshot_seq = 0
    /\ users = {}
    /\ predictions = {}
    /\ referrals = {}
    /\ pc = [p \in {"main", "job"} |-> "idle"]
    /\ fetched = [p \in {"main", "job"} |-> <<>>]
    /\ is_demo = [p \in {"main", "job"} |-> FALSE]
    /\ registering = {}
    /\ seen_ids = [p \in {"main", "job"} |-> {}]
    /\ pending = [p \in {"main", "job"} |-> {}]
    /\ tx = <<>>
    /\ view = <<>>

ApplyPressure ==
    /\ calc.fn = "calculate_pressure_index" /\ ~calc.done
    /\ calc' = [calc EXCEPT !.done = TRUE] @@
                [result |-> calculate_pressure_index(calc.minute, calc.score_home,
                                                     calc.score_away, calc.previous)]
    /\ UNCHANGED <<now, running, api_status, store, locals, view>>

ApplyForecast ==
    /\ calc.fn = "get_forecast" /\ ~calc.done
    /\ calc' = [calc EXCEPT !.done = TRUE] @@
                [result |-> get_forecast(calc.pressures, calc.fp)]
    /\ UNCHANGED <<now, running, api_status, store, locals, view>>

ApplyChart ==
    /\ calc.fn = "generate_svg_chart" /\ ~calc.done
    /\ calc' = [calc EXCEPT !.done = TRUE] @@
                [result |-> generate_svg_chart(calc.pressures, calc.width,
                                               calc.height, calc.padding)]
    /\ UNCHANGED <<now, running, api_status, store, locals, view>>

CalcNext == ApplyPressure \/ ApplyForecast \/ ApplyChart

SpecCalc == CalcInit /\ [][CalcNext]_vars


\* ------------------------------------------------ claims on SpecCalc
\* the trend term as the specification words it
ClaimTrend(score_home, score_away, previous) ==
    IF previous = <<>> THEN 0
    ELSE (IF score_home > previous[1].score_home THEN 40 ELSE 0)
         + (IF score_away > previous[1].score_away THEN -40 ELSE 0)

\* 90 * clamp(base + score_impact + trend_impact, -100, 100), base = minute/90*20
ClaimPressure90(minute, score_home, score_away, previous) ==
    Clip(20 * minute
         + 90 * Clip((score_home - score_away) * 30, -60, 60)
         + 90 * ClaimTrend(score_home, score_away, previous),
         -9000, 9000)

\* C1: for every minute, score and optional prior snapshot,
\* calculate_pressure_index returns clamp(base + score_impact + trend_impact,
\* -100, 100) with base = (minute/90)*20, score_impact = clamp(score_diff*30,
\* -60, 60), and trend_impact 0 without a prior snapshot: minute 45 with equal
\* scores and no prior snapshot gives 10, and 5-0 gives a score_impact of 60.
C1_PressureFormula ==
    (calc.fn = "calculate_pressure_index" /\ calc.done) =>
        /\ 90 * calc.result
             = Scale * ClaimPressure90(calc.minute, calc.score_home,
                                       calc.score_away, calc.previous)
        /\ (calc.minute = 45 /\ calc.score_home = calc.score_away
            /\ calc.previous = <<>>) => calc.result = 10 * Scale
        /\ (calc.minute = 45 /\ calc.score_home = 5 /\ calc.score_away = 0
            /\ calc.previous = <<>>) => calc.result = (10 + 60) * Scale

\* C1's case: 5-0 at minute 45 without a prior snapshot has been computed,
\* and came out as 10 + 60
C1_Witness ==
    /\ calc.fn = "calculate_pressure_index" /\ calc.done
    /\ calc.minute = 45 /\ calc.score_home = 5 /\ calc.score_away = 0
    /\ calc.previous = <<>>
    /\ calc.result = 70 * Scale

RECURSIVE GCD(_, _)
GCD(a, b) == IF b = 0 THEN a ELSE GCD(b, a % b)
Abs(a) == IF a < 0 THEN -a ELSE a

\* floor(an/ad - bn/bd) for ad, bd > 0, on the fractions in lowest terms
FloorOfDifference(an, ad, bn, bd) ==
    LET ga == GCD(Abs(an), ad)
        gb == GCD(Abs(bn), bd)
        a == an \div ga
        c == ad \div ga
        b == bn \div gb
        d == bd \div gb
    IN  (a \div c) - (b \div d) - (IF (a % c) * d >= (b % d) * c THEN 0 ELSE 1)

\* the probability as the specification words it, in exact arithmetic, on the
\* last ten values y (Scale * pressure): the slope of the least-squares line
\* is sum((x - mx)(y - my)) / sum((x - mx)^2), the variance sum((y - my)^2) / n
ClaimProbability(y) ==
    LET n == Len(y)
        Sx == SeqSum([i \in 1..n |-> i - 1])
        Sy == SeqSum(y)
        cov == SeqSum([i \in 1..n |-> (n * (i - 1) - Sx) * (n * y[i] - Sy)])
        varx == SeqSum([i \in 1..n |-> (n * (i - 1) - Sx) * (n * (i - 1) - Sx)])
        vary == SeqSum([i \in 1..n |-> (n * y[i] - Sy) * (n * y[i] - Sy)])
        \* slope = cov / (Scale * varx); variance = vary / (Scale^2 * n^3)
        vden == 10 * Scale * Scale * n * n * n
        penalty == IF vary >= 20 * vden THEN 20 * vden ELSE vary
    IN  Clip(50 + FloorOfDifference(10 * cov, Scale * varx, penalty, vden), 0, 100)

IsConstant(y) == \A i \in 1..Len(y) : y[i] = y[1]

\* C10: get_forecast returns an integer probability in [0, 100]; below three
\* snapshots it returns Inconclusive and 0; from three on it returns
\* clamp(50 + slope*10 - min(variance/10, 20), 0, 100) truncated, so a
\* constant sequence gives probability 50 and level Moderate.
C10_Forecast ==
    (calc.fn = "get_forecast" /\ calc.done) =>
        /\ calc.result.probability \in 0..100
        /\ Len(calc.pressures) < 3 =>
              calc.result = [level |-> "Inconclusive", probability |-> 0]
        /\ Len(calc.pressures) >= 3 =>
              /\ calc.result.probability = ClaimProbability(LastTen(calc.pressures))
              /\ IsConstant(LastTen(calc.pressures)) =>
                    calc.result = [level |-> "Moderate", probability |-> 50]

\* C11: generate_svg_chart returns an empty result on empty input; otherwise
\* the points run evenly from x = padding (where a single snapshot lies) to
\* x = width - padding for the last of several, and y = height/2 -
\* pressure * (height/2 - padding) / 100: pressure 0 lies exactly on the
\* vertical centre, +100 on the padded top, -100 on the padded bottom.
C11_Chart ==
    (calc.fn = "generate_svg_chart" /\ calc.done) =>
        LET n == Len(calc.pressures)
            pts == calc.result.points
            span == calc.width - 2 * calc.padding
        IN  /\ n = 0 => calc.result = [svg |-> FALSE, points |-> <<>>]
            /\ n > 0 =>
                  /\ calc.result.svg /\ Len(pts) = n
                  /\ pts[1].x.num = calc.padding * pts[1].x.den
                  /\ n > 1 => pts[n].x.num = (calc.width - calc.padding) * pts[n].x.den
                  /\ \A i \in 1..n :
                        /\ pts[i].x.den > 0 /\ pts[i].y.den > 0
                        /\ (IF n > 1 THEN n - 1 ELSE 1) * pts[i].x.num
                             = pts[i].x.den * ((IF n > 1 THEN n - 1 ELSE 1) * calc.padding
                                               + (i - 1) * span)
                        /\ 200 * Scale * pts[i].y.num
                             = pts[i].y.den * (100 * Scale * calc.height
                                               - calc.pressures[i]
                                                 * (calc.height - 2 * calc.padding))
                        /\ calc.pressures[i] = 0 =>
                              2 * pts[i].y.num = calc.height * pts[i].y.den
                        /\ calc.pressures[i] = 100 * Scale =>
                              pts[i].y.num = calc.padding * pts[i].y.den
                        /\ calc.pressures[i] = -100 * Scale =>
                              pts[i].y.num = (calc.height - calc.padding) * pts[i].y.den

\* C11's case: a chart of three snapshots at pressures -100, 0 and +100 has
\* been drawn, its last point at width - padding.
C11_Witness ==
    /\ calc.fn = "generate_svg_chart" /\ calc.done
    /\ calc.pressures = <<-100 * Scale, 0, 100 * Scale>>
    /\ calc.result.points[3].x = [num |-> 2 * (calc.width - calc.padding), den |-> 2]
    /\ calc.result.points[2].y.num * 2 = calc.height * calc.result.points[2].y.den

\* ------------------------------------------------------------- the store
Pollers == {"main", "job"}

TOP_COMPETITIONS == {2021, 2014, 2001, 2002, 2019, 2015}

\* active_statuses of poll_live_matches
ActiveStatuses == {"LIVE", "IN_PLAY", "TIMED", "STARTING"}

\* int(x / d) for d > 0: Python truncates toward zero
TruncDiv(x, d) == IF x >= 0 THEN x \div d ELSE -((-x) \div d)

\* ORDER BY timestamp DESC: r comes before q.  SQL leaves the order of rows
\* with equal timestamps open; tie says how this execution orders them.
Before(r, q, tie) ==
    \/ r.timestamp > q.timestamp
    \/ r.timestamp = q.timestamp /\ (IF tie = "asc" THEN r.id < q.id ELSE r.id > q.id)

RECURSIVE OrderDesc(_, _)
OrderDesc(rows, tie) ==
    IF rows = {} THEN <<>>
    ELSE LET r == CHOOSE x \in rows : \A q \in rows \ {x} : Before(x, q, tie)
         IN  <<r>> \o OrderDesc(rows \ {r}, tie)

\* LIMIT n
Limit(seq, n) == IF Len(seq) <= n THEN seq ELSE SubSeq(seq, 1, n)

\* the minute without "minute = max(1, min(minute, 120))"
MinuteUncapped(utcDate, clock) ==
    IF utcDate.kind = "iso" THEN TruncDiv(clock - utcDate.t, 60) ELSE 45

\* "Calculate dynamic minute" of poll_live_matches: the try block and its
\* fallback.  A kickoff of kind "iso" is a string datetime.fromisoformat
\* accepts, standing for the instant t; every other kind (a string it
\* rejects, the empty string, None, no key) ends in the except branch.
estimate_minute(utcDate, clock) ==
    IF utcDate.kind = "iso"
    THEN Clip(TruncDiv(clock - utcDate.t, 60), 1, 120)
    ELSE 45

\* the line that filters the feed to the top competitions
FilterTop(feed) ==
    SelectSeq(feed, LAMBDA m : m.competition # <<>>
                               /\ m.competition[1] \in TOP_COMPETITIONS)

SeenIds(feed) == {feed[i].id : i \in 1..Len(feed)}

\* UPDATE matches SET status='FINISHED' WHERE status IN active_statuses
\* AND id NOT IN seen_ids (with no seen_ids: every active match)
MarkFinished(tbl, seen) ==
    [i \in DOMAIN tbl |->
        IF tbl[i].status \in ActiveStatuses /\ i \notin seen
        THEN [tbl[i] EXCEPT !.status = "FINISHED"]
        ELSE tbl[i]]

\* INSERT INTO matches ... ON CONFLICT(id) DO UPDATE SET status, score_home,
\* score_away, last_updated
Upsert(tbl, m, score_home, score_away, clock) ==
    IF m.id \in DOMAIN tbl
    THEN [tbl EXCEPT ![m.id] = [@ EXCEPT !.status = m.status,
                                         !.score_home = score_home,
                                         !.score_away = score_away,
                                         !.last_updated = clock]]
    ELSE (m.id :> [name |-> <<m.homeTeam, "vs", m.awayTeam>>,
                   home_team |-> m.homeTeam, away_team |-> m.awayTeam,
                   status |-> m.status, utc_date |-> m.utcDate,
                   score_home |-> score_home, score_away |-> score_away,
                   last_updated |-> clock]) @@ tbl

MatchRows(rows, match_id) == {r \in rows : r.match_id = match_id}

\* the trim without its match_id filter: it keeps the newest rows of the table
TrimWholeTable(rows, match_id, tie) ==
    LET ordered == OrderDesc(rows, tie)
    IN  rows \ {ordered[i] : i \in (SnapshotCap + 1)..Len(ordered)}

\* DELETE FROM snapshots WHERE id IN (SELECT id FROM snapshots WHERE
\* match_id=? ORDER BY timestamp DESC LIMIT -1 OFFSET cap)
Trim(rows, match_id, tie) ==
    LET ordered == OrderDesc(MatchRows(rows, match_id), tie)
    IN  rows \ {ordered[i] : i \in (SnapshotCap + 1)..Len(ordered)}

\* the loop body with an UPDATE of the match's newest snapshot in place of
\* the INSERT
StoreRecordOverwrite(db, m, clocks, tie) ==
    LET score_home == IF m.home # <<>> THEN m.home[1] ELSE 0
        score_away == IF m.away # <<>> THEN m.away[1] ELSE 0
        tbl == Upsert(db.matches, m, score_home, score_away, clocks[1])
        prev_snapshots == Limit(OrderDesc(MatchRows(db.snapshots, m.id), tie), 20)
        minute == estimate_minute(m.utcDate, clocks[2])
        p_index == calculate_pressure_index(minute, score_home, score_away,
                                            prev_snapshots)
        row == [id |-> db.seq + 1, match_id |-> m.id, timestamp |-> clocks[3],
                minute |-> minute, score_home |-> score_home,
                score_away |-> score_away, pressure_index |-> p_index]
    IN  IF prev_snapshots = <<>>
        THEN [matches |-> tbl, snapshots |-> db.snapshots \cup {row},
              seq |-> db.seq + 1]
        ELSE [matches |-> tbl,
              snapshots |-> (db.snapshots \ {prev_snapshots[1]})
                            \cup {[row EXCEPT !.id = prev_snapshots[1].id]},
              seq |-> db.seq]

\* the body of "for m in matches": upsert, previous snapshots, minute,
\* pressure, insert, trim.  db is [matches, snapshots, seq].  The clock is
\* read three times on the way, and may have moved on in between: by the
\* upsert (last_updated = CURRENT_TIMESTAMP), by datetime.now() for the
\* minute, and by the INSERT (timestamp DEFAULT CURRENT_TIMESTAMP); clocks
\* holds the three readings.
StoreRecord(db, m, clocks, tie) ==
    LET score_home == IF m.home # <<>> THEN m.home[1] ELSE 0
        score_away == IF m.away # <<>> THEN m.away[1] ELSE 0
        tbl == Upsert(db.matches, m, score_home, score_away, clocks[1])
        prev_snapshots == Limit(OrderDesc(MatchRows(db.snapshots, m.id), tie), 20)
        minute == estimate_minute(m.utcDate, clocks[2])
        p_index == calculate_pressure_index(minute, score_home, score_away,
                                            prev_snapshots)
        row == [id |-> db.seq + 1, match_id |-> m.id, timestamp |-> clocks[3],
                minute |-> minute, score_home |-> score_home,
                score_away |-> score_away, pressure_index |-> p_index]
    IN  [matches |-> tbl,
         snapshots |-> Trim(db.snapshots \cup {row}, m.id, tie),
         seq |-> db.seq + 1]

RECURSIVE StoreAll(_, _, _, _)
StoreAll(db, feed, stamps, tie) ==
    IF feed = <<>> THEN db
    ELSE StoreAll(StoreRecord(db, Head(feed), SubSeq(stamps, 1, 3), tie),
                  Tail(feed), SubSeq(stamps, 4, Len(stamps)), tie)

\* m['utcDate'] in the arguments of the upsert raises KeyError when the
\* record has no such key; nothing else of a record of the feed's shape raises
Raises(feed) == \E i \in 1..Len(feed) : feed[i].utcDate.kind = "missing"

\* the two synthetic records of demo mode: no competition, the kickoff of
\* each the clock as read for it
DemoFeed(clocks) ==
    << [id |-> 1001, competition |-> <<>>, status |-> "LIVE", home |-> <<2>>,
        away |-> <<1>>, utcDate |-> [kind |-> "iso", t |-> clocks[1]],
        homeTeam |-> "Demo United", awayTeam |-> "Mock City"],
       [id |-> 1002, competition |-> <<>>, status |-> "LIVE", home |-> <<0>>,
        away |-> <<0>>, utcDate |-> [kind |-> "iso", t |-> clocks[2]],
        homeTeam |-> "Synthetic FC", awayTeam |-> "Silicon Real"] >>

\* the with-block of poll_live_matches up to db.commit(), on the fetched
\* matches: filter, mark FINISHED, store each record.  stamps holds the
\* clock readings of the loop, three per record of the filtered feed.
Persist(db, records, stamps, tie) ==
    LET feed == FilterTop(records)
    IN  StoreAll([db EXCEPT !.matches = MarkFinished(db.matches, SeenIds(feed))],
                 feed, stamps, tie)

\* the readings of a clock that never runs backward: k of them, from lo on
Readings(k, lo, hi) ==
    {r \in [1..k -> lo..hi] : \A i \in 1..(k - 1) : r[i] <= r[i + 1]}

\* ----------------------------------------------------- scoring predictions
\* the points of one row of score_predictions' SELECT
Points(p, m) ==
    LET actual_outcome == IF m.score_home > m.score_away THEN "HOME"
                          ELSE IF m.score_away > m.score_home THEN "AWAY"
                          ELSE "DRAW"
        outcome_points == IF p.predicted_outcome = actual_outcome
                          THEN (IF actual_outcome = "DRAW" THEN 120 ELSE 100)
                          ELSE 0
        exact_points == IF p.predicted_home_goals = m.score_home
                           /\ p.predicted_away_goals = m.score_away
                        THEN 200 ELSE 0
    IN  outcome_points + exact_points

\* the SELECT of score_predictions and the points of each row it returns
SelectPending(preds, tbl) ==
    {[id |-> p.id, user_id |-> p.user_id, points |-> Points(p, tbl[p.match_id])] :
        p \in {q \in preds : /\ q.status = "PENDING"
                             /\ q.match_id \in DOMAIN tbl
                             /\ tbl[q.match_id].status = "FINISHED"}}

\* the two UPDATEs of the loop, for every selected row
ScoredPredictions(preds, sel) ==
    {IF \E x \in sel : x.id = p.id
     THEN [p EXCEPT !.points_awarded = (CHOOSE x \in sel : x.id = p.id).points,
                    !.status = "SCORED"]
     ELSE p : p \in preds}

RECURSIVE SumPoints(_)
SumPoints(sel) ==
    IF sel = {} THEN 0
    ELSE LET x == CHOOSE y \in sel : TRUE IN x.points + SumPoints(sel \ {x})

CreditedUsers(us, sel) ==
    {[u EXCEPT !.points = @ + SumPoints({x \in sel : x.user_id = u.id})] : u \in us}

\* ------------------------------------------------------ the prediction game
\* generate_referral_code: eight random characters; the code of the n-th
\* user (n >= 1) is a fresh string no cookie could have held before
CodeOf(n) == <<"code", n>>

\* predict_page, POST without a username cookie, up to the first
\* db.commit(): the INSERT of the user.  A name out of 3..20 characters is
\* refused; a name already stored raises IntegrityError, which is passed over.
RegisteredUsers(us, candidate_username, referred_by) ==
    LET id == Cardinality(us) + 1
        row == [id |-> id, username |-> candidate_username,
                referral_code |-> CodeOf(id), referred_by_code |-> referred_by,
                points |-> 0]
    IN  IF Len(candidate_username[2]) < 3 \/ Len(candidate_username[2]) > 20
        THEN us
        ELSE IF \E u \in us : u.username = candidate_username
        THEN us
        ELSE us \cup {row}

\* the same request after that commit, "if referred_by": the referrer is
\* looked up by the code; if there is one, points + 50 and the referrals
\* row, and the second db.commit()
ReferralBonus(us, refs, candidate_username, referred_by) ==
    LET referrer == {u \in us : <<u.referral_code>> = referred_by}
        new_user == CHOOSE u \in us : u.username = candidate_username
    IN  IF referred_by # <<>> /\ referrer # {}
        THEN [users |-> {IF u \in referrer THEN [u EXCEPT !.points = @ + 50] ELSE u :
                            u \in us},
              referrals |-> refs \cup
                  {[id |-> Cardinality(refs) + 1,
                    referrer_user_id |-> (CHOOSE u \in referrer : TRUE).id,
                    referred_user_id |-> new_user.id, bonus_points |-> 50]}]
        ELSE [users |-> us, referrals |-> refs]

\* predict_page, POST with a username cookie: "Save prediction"
SavedPredictions(preds, us, username, match_id, outcome, h_goals, a_goals) ==
    LET user == {u \in us : u.username = username}
        user_id == (CHOOSE u \in user : TRUE).id
    IN  IF user = {} THEN preds
        ELSE IF \E q \in preds : q.user_id = user_id /\ q.match_id = match_id
        THEN preds
        ELSE preds \cup {[id |-> Cardinality(preds) + 1, user_id |-> user_id,
                          match_id |-> match_id, predicted_outcome |-> outcome,
                          predicted_home_goals |-> h_goals,
                          predicted_away_goals |-> a_goals,
                          points_awarded |-> 0, status |-> "PENDING"]}

\* ORDER BY timestamp ASC
RECURSIVE OrderAsc(_, _)
OrderAsc(rows, tie) ==
    IF rows = {} THEN <<>>
    ELSE LET r == CHOOSE x \in rows : \A q \in rows \ {x} : Before(q, x, tie)
         IN  <<r>> \o OrderAsc(rows \ {r}, tie)

\* ------------------------------------------------------------ the inputs
MatchIds == 1..MaxMatchId

Iso(t) == [kind |-> "iso", t |-> t]
\* kickoff 30 minutes ago, 130 minutes ago, in 10 minutes
Kickoffs == {Iso(-1800), Iso(-7800), Iso(600)}
\* a string fromisoformat rejects, the empty string, None, no key
BadKickoffs == {[kind |-> k, t |-> 0] : k \in {"text", "empty", "null", "missing"}}

BaseRecord(id) ==
    [id |-> id, competition |-> <<2021>>, status |-> "IN_PLAY",
     home |-> <<0>>, away |-> <<0>>, utcDate |-> Iso(-1800),
     homeTeam |-> <<"Home", id>>, awayTeam |-> <<"Away", id>>]

\* the base record of a match and the records that differ from it in one field
RecordsOf(id) ==
    {BaseRecord(id)}
    \cup {[BaseRecord(id) EXCEPT !.status = "PAUSED"]}
    \cup {[BaseRecord(id) EXCEPT !.competition = c] : c \in {<<>>, <<2013>>}}
    \cup {[BaseRecord(id) EXCEPT !.home = h] : h \in {<<>>, <<1>>, <<5>>}}
    \cup {[BaseRecord(id) EXCEPT !.away = <<1>>]}
    \cup {[BaseRecord(id) EXCEPT !.utcDate = k] : k \in Kickoffs \cup BadKickoffs}

\* the records of match 1, and the other matches at each kickoff
FeedRecords ==
    RecordsOf(1)
    \cup {[BaseRecord(id) EXCEPT !.utcDate = k] : id \in MatchIds, k \in Kickoffs}

\* feeds of up to two records
Feeds == {<<>>} \cup {<<r>> : r \in FeedRecords}
                \cup {<<BaseRecord(MaxMatchId), r>> : r \in RecordsOf(1)}

TieOrders == {"asc", "desc"}

\* the feeds of the runs with the prediction game: few records
SmallRecords ==
    {BaseRecord(id) : id \in MatchIds}
    \cup {[BaseRecord(1) EXCEPT !.status = "PAUSED"],
          [BaseRecord(1) EXCEPT !.home = <<1>>],
          [BaseRecord(1) EXCEPT !.utcDate = [kind |-> "missing", t |-> 0]]}
SmallFeeds == {<<>>} \cup {<<r>> : r \in SmallRecords}
                     \cup {<<BaseRecord(1), BaseRecord(MaxMatchId)>>}

\* the feeds of the runs with the prediction game: match 1, 0-0 or 1-0
GameFeeds == {<<>>, <<BaseRecord(1)>>, <<[BaseRecord(1) EXCEPT !.home = <<1>>]>>}

\* the feeds of the runs on trimming: two scores, any two records
TrimRecords ==
    UNION {{BaseRecord(id), [BaseRecord(id) EXCEPT !.home = <<1>>]} : id \in MatchIds}
TrimFeeds == {<<r>> : r \in TrimRecords} \cup {<<r, q>> : r, q \in TrimRecords}

\* usernames a visitor submits (a name is its position and its characters)
Usernames == {<<1, <<"a", "n", "n">> >>, <<2, <<"b", "o", "b">> >>, <<3, <<"a", "l">> >>}
\* the one visitor of the runs on the dashboard
Visitor == <<1, <<"a", "n", "n">> >>
\* the referred_by cookie: none, a text that is no user's code (CodeOf(0):
\* /ref/<referral_code> stores any text), or the code of the n-th user
Cookies == {<<>>, <<CodeOf(0)>>} \cup {<<CodeOf(n)>> : n \in 1..MaxUsers}
\* generate_referral_code draws 8 random characters: a text in a cookie is
\* the code of a user already stored or stays nobody's code
Drawn(us, referred_by) ==
    \/ referred_by \in {<<>>, <<CodeOf(0)>>}
    \/ \E u \in us : <<u.referral_code>> = referred_by
\* the fields of a prediction form; match 99 is not in the store
FormMatches == {1, 99}
FormOutcomes == {"HOME", "DRAW"}
FormGoals == {<<1, 0>>}

\* ------------------------------------------------------------ the process
Init ==
    /\ now = 0
    /\ running = TRUE
    /\ api_status = [status |-> "Unknown", last_check |-> <<>>, error |-> NULL]
    /\ matches = <<>>
    /\ snapshots = {}
    /\ snapshot_seq = 0
    /\ users = {}
    /\ predictions = {}
    /\ referrals = {}
    /\ pc = [p \in Pollers |-> "idle"]
    /\ fetched = [p \in Pollers |-> <<>>]
    /\ is_demo = [p \in Pollers |-> FALSE]
    /\ seen_ids = [p \in Pollers |-> {}]
    /\ pending = [p \in Pollers |-> {}]
    /\ tx = <<>>
    /\ registering = {}
    /\ view = <<>>
    /\ calc = [fn |-> "none", done |-> FALSE]

\* the clock advances
Tick ==
    /\ running
    /\ now < MaxClock
    /\ now' = now + 1
    /\ UNCHANGED <<running, api_status, store, locals, view, calc>>

\* poll_live_matches is entered: by the start-up call of __main__ once, by
\* the scheduler's job whenever its previous run has returned
PollBegin(p) ==
    /\ running
    /\ pc[p] = "idle"
    /\ api_status' = [api_status EXCEPT !.last_check = <<now>>]
    /\ pc' = [pc EXCEPT ![p] = "fetch"]
    /\ UNCHANGED <<now, running, store, fetched, is_demo, seen_ids, pending, tx,
                   registering, view, calc>>

\* the call returns: the start-up call goes on to app.run, the job is the
\* scheduler's again
Return(p) ==
    /\ pc' = [pc EXCEPT ![p] = IF p = "main" THEN "serving" ELSE "idle"]
    /\ seen_ids' = [seen_ids EXCEPT ![p] = {}]

\* an exception leaves poll_live_matches: the connection is closed without a
\* commit; the scheduler logs a job's exception and runs it again later; the
\* start-up call's exception ends the process
Abandon(p) ==
    /\ IF p = "main"
       THEN running' = FALSE /\ UNCHANGED pc
       ELSE pc' = [pc EXCEPT ![p] = "idle"] /\ UNCHANGED running
    /\ fetched' = [fetched EXCEPT ![p] = <<>>]
    /\ is_demo' = [is_demo EXCEPT ![p] = FALSE]
    /\ seen_ids' = [seen_ids EXCEPT ![p] = {}]
    /\ pending' = [pending EXCEPT ![p] = {}]

\* PollFailed without its return: the cycle goes on with no matches
PollFailedNoReturn(p, kind) ==
    /\ running
    /\ pc[p] = "fetch"
    /\ api_status' = [api_status EXCEPT
            !.status = IF kind = "http" THEN "API Error" ELSE "Connection Error",
            !.error = IF kind = "http" THEN "Error" ELSE "Failed to connect to API"]
    /\ matches' = MarkFinished(matches, {})
    /\ pc' = [pc EXCEPT ![p] = "select"]
    /\ UNCHANGED <<now, running, snapshots, snapshot_seq, users, predictions,
                   referrals, fetched, is_demo, seen_ids, pending, tx,
                   registering, view, calc>>

\* the feed is unavailable: a response other than 200 ("http") or an
\* exception of the request ("exception")
PollFailed(p, kind) ==
    /\ running
    /\ pc[p] = "fetch"
    /\ api_status' = [api_status EXCEPT
            !.status = IF kind = "http" THEN "API Error" ELSE "Connection Error",
            !.error = IF kind = "http" THEN "Error" ELSE "Failed to connect to API"]
    /\ Return(p)
    /\ UNCHANGED <<now, running, store, fetched, is_demo, pending, tx,
                   registering, view, calc>>

\* demo mode: no API key is configured.  api_status is written and the
\* synthetic records are built, each with a reading of the clock; the
\* with-block follows.
PollDemo(p, stamps) ==
    /\ running
    /\ pc[p] = "fetch"
    /\ stamps \in Readings(2, now, MaxClock)
    /\ now' = stamps[2]
    /\ api_status' = [api_status EXCEPT !.status = "Demo Mode",
                                        !.error = "Using synthetic data"]
    /\ fetched' = [fetched EXCEPT ![p] = DemoFeed(stamps)]
    /\ is_demo' = [is_demo EXCEPT ![p] = TRUE]
    /\ pc' = [pc EXCEPT ![p] = "write"]
    /\ UNCHANGED <<running, store, seen_ids, pending, tx, registering,
                   view, calc>>

\* the feed answers 200 with the matches `feed`: api_status is written; the
\* with-block follows.
PollFeed(p, feed) ==
    /\ running
    /\ pc[p] = "fetch"
    /\ api_status' = [api_status EXCEPT !.status = "Healthy", !.error = NULL]
    /\ fetched' = [fetched EXCEPT ![p] = feed]
    /\ is_demo' = [is_demo EXCEPT ![p] = FALSE]
    /\ pc' = [pc EXCEPT ![p] = "write"]
    /\ UNCHANGED <<now, running, store, seen_ids, pending, tx, registering,
                   view, calc>>

\* the statements of the with-block before db.commit().  The first UPDATE
\* opens a write transaction on the caller's connection, once no other
\* connection holds one; what the caller writes stays in its transaction,
\* off the other connections' sight.  The clock moves on while the
\* statements run: stamps holds its readings, and the last is the time
\* when the loop ends.  A record without utcDate raises KeyError.
Execute(p, tie, stamps) ==
    LET feed == FilterTop(fetched[p])
        db == Persist([matches |-> matches, snapshots |-> snapshots,
                       seq |-> snapshot_seq], fetched[p], stamps, tie)
    IN  /\ running
        /\ pc[p] = "write"
        /\ tx = <<>>
        /\ stamps \in Readings(3 * Len(feed), now, MaxClock)
        /\ IF Raises(feed)
           THEN Abandon(p) /\ UNCHANGED <<now, tx>>
           ELSE /\ tx' = <<[owner |-> p, db |-> db]>>
                /\ now' = IF stamps = <<>> THEN now ELSE stamps[Len(stamps)]
                /\ seen_ids' = [seen_ids EXCEPT ![p] = SeenIds(feed)]
                /\ fetched' = [fetched EXCEPT ![p] = <<>>]
                /\ is_demo' = [is_demo EXCEPT ![p] = FALSE]
                /\ pc' = [pc EXCEPT ![p] = "commit"]
                /\ UNCHANGED <<running, pending>>
        /\ UNCHANGED <<api_status, store, registering, view, calc>>

\* the first UPDATE has waited its 10 seconds (sqlite3.connect(timeout=10))
\* for the other connection's transaction: OperationalError, database is
\* locked
LockTimeout(p) ==
    /\ running
    /\ pc[p] = "write"
    /\ tx # <<>>
    /\ Abandon(p)
    /\ UNCHANGED <<now, api_status, store, tx, registering, view, calc>>

\* db.commit() of poll_live_matches: the transaction's writes reach the store
DbCommit(p) ==
    /\ running
    /\ pc[p] = "commit"
    /\ tx # <<>> /\ tx[1].owner = p
    /\ matches' = tx[1].db.matches
    /\ snapshots' = tx[1].db.snapshots
    /\ snapshot_seq' = tx[1].db.seq
    /\ tx' = <<>>
    /\ pc' = [pc EXCEPT ![p] = "select"]
    /\ UNCHANGED <<now, running, api_status, users, predictions, referrals,
                   fetched, is_demo, seen_ids, pending, registering, view, calc>>

\* score_predictions: the SELECT
ScoreSelect(p) ==
    /\ running
    /\ pc[p] = "select"
    /\ pending' = [pending EXCEPT ![p] = SelectPending(predictions, matches)]
    /\ pc' = [pc EXCEPT ![p] = "apply"]
    /\ UNCHANGED <<now, running, api_status, store, fetched, is_demo, seen_ids,
                   tx, registering, view, calc>>

\* score_predictions: the loop of UPDATEs and db.commit()
ScoreApply(p) ==
    /\ running
    /\ pc[p] = "apply"
    /\ pending[p] # {} => tx = <<>>
    /\ predictions' = ScoredPredictions(predictions, pending[p])
    /\ users' = CreditedUsers(users, pending[p])
    /\ pending' = [pending EXCEPT ![p] = {}]
    /\ Return(p)
    /\ UNCHANGED <<now, running, api_status, matches, snapshots, snapshot_seq,
                   referrals, fetched, is_demo, tx, registering, view, calc>>

\* score_predictions: the first UPDATE has waited its 10 seconds for the
\* other caller's transaction: OperationalError, nothing is scored
ScoreLocked(p) ==
    /\ running
    /\ pc[p] = "apply"
    /\ pending[p] # {}
    /\ tx # <<>>
    /\ Abandon(p)
    /\ UNCHANGED <<now, api_status, store, tx, registering, view, calc>>

\* POST /predict without a username cookie, up to its first db.commit(): the
\* user is stored.  With a referred_by cookie the request goes on to the
\* referrer's bonus.  While a caller's transaction is open the INSERT
\* waits; a wait of 10 seconds fails the request with nothing stored.
Register(candidate_username, referred_by) ==
    /\ running
    /\ pc["main"] = "serving"
    /\ tx = <<>>
    /\ Drawn(users, referred_by)
    /\ users' = RegisteredUsers(users, candidate_username, referred_by)
    /\ registering' =
          IF users' # users /\ referred_by # <<>>
          THEN registering \cup {[username |-> candidate_username,
                                  referred_by |-> referred_by]}
          ELSE registering
    /\ UNCHANGED <<now, running, api_status, matches, snapshots, snapshot_seq,
                   predictions, referrals, pc, fetched, is_demo, seen_ids,
                   pending, tx, view, calc>>

\* the rest of that request: the referrer is looked up and, if there is one,
\* credited in a second transaction
RegisterBonus(r) ==
    LET b == ReferralBonus(users, referrals, r.username, r.referred_by)
    IN  /\ running
        /\ r \in registering
        /\ b.users # users => tx = <<>>
        /\ users' = b.users
        /\ referrals' = b.referrals
        /\ registering' = registering \ {r}
        /\ UNCHANGED <<now, running, api_status, matches, snapshots, snapshot_seq,
                       predictions, pc, fetched, is_demo, seen_ids, pending, tx,
                       view, calc>>

\* the UPDATE of the referrer has waited its 10 seconds for a caller's
\* transaction: OperationalError is not sqlite3.IntegrityError, the request
\* fails with the user stored and the bonus not credited
RegisterBonusLost(r) ==
    /\ running
    /\ r \in registering
    /\ ReferralBonus(users, referrals, r.username, r.referred_by).users # users
    /\ tx # <<>>
    /\ registering' = registering \ {r}
    /\ UNCHANGED <<now, running, api_status, store, pc, fetched, is_demo,
                   seen_ids, pending, tx, view, calc>>

\* POST /predict with a username cookie.  While a caller's transaction is
\* open the INSERT waits; a wait of 10 seconds fails the request with
\* nothing stored.
Predict(username, match_id, outcome, goals) ==
    /\ running
    /\ pc["main"] = "serving"
    /\ tx = <<>>
    /\ predictions' = SavedPredictions(predictions, users, username, match_id,
                                       outcome, goals[1], goals[2])
    /\ UNCHANGED <<now, running, api_status, matches, snapshots, snapshot_seq,
                   users, referrals, locals, view, calc>>

\* GET /match/<match_id>: match_dashboard reads the match's snapshots
ReadDashboard(match_id, tie) ==
    /\ running
    /\ pc["main"] = "serving"
    /\ match_id \in DOMAIN matches
    /\ view' = OrderAsc(MatchRows(snapshots, match_id), tie)
    /\ UNCHANGED <<now, running, api_status, store, locals, calc>>

\* "python app.py" once more, whether the process before it has ended or is
\* stopped here: momentum_fc.db keeps its rows (init_db creates only what
\* is missing), an open transaction and the requests in flight are lost,
\* api_status and the callers start afresh
Restart ==
    /\ running' = TRUE
    /\ api_status' = [status |-> "Unknown", last_check |-> <<>>, error |-> NULL]
    /\ pc' = [p \in Pollers |-> "idle"]
    /\ fetched' = [p \in Pollers |-> <<>>]
    /\ is_demo' = [p \in Pollers |-> FALSE]
    /\ seen_ids' = [p \in Pollers |-> {}]
    /\ pending' = [p \in Pollers |-> {}]
    /\ tx' = <<>>
    /\ registering' = {}
    /\ view' = <<>>
    /\ UNCHANGED <<now, store, calc>>

\* the rows the snapshots key has handed out or will for the feeds in hand
RowsAhead ==
    (IF tx # <<>> THEN tx[1].db.seq ELSE snapshot_seq)
    + Len(FilterTop(fetched["main"])) + Len(FilterTop(fetched["job"]))

\* the feed fits the rows the key may still hand out
Fits(feed, rows) == RowsAhead + Len(FilterTop(feed)) <= rows

\* the clock readings of caller p's loop: up to hi
StampsOf(p, hi) == Readings(3 * Len(FilterTop(fetched[p])), now, hi)

\* The start-up call and the scheduler's job, with readers of the dashboard
\* and one visitor of the prediction game.
Next ==
    \/ Tick
    \/ \E p \in Pollers : PollBegin(p)
    \/ \E p \in Pollers, kind \in {"http", "exception"} : PollFailed(p, kind)
    \/ \E p \in Pollers, stamps \in Readings(2, now, MaxClock) : PollDemo(p, stamps)
    \/ \E p \in Pollers, feed \in SmallFeeds :
          Fits(feed, MaxFeedRows) /\ PollFeed(p, feed)
    \/ \E p \in Pollers, tie \in TieOrders :
          \E stamps \in StampsOf(p, MaxClock) : Execute(p, tie, stamps)
    \/ \E p \in Pollers : LockTimeout(p)
    \/ \E p \in Pollers : DbCommit(p)
    \/ \E p \in Pollers : ScoreSelect(p)
    \/ \E p \in Pollers : ScoreApply(p)
    \/ \E m \in MatchIds, tie \in TieOrders : ReadDashboard(m, tie)
    \/ users = {} /\ Register(Visitor, <<>>)
    \/ predictions = {} /\ Predict(Visitor, 1, "HOME", <<0, 0>>)

Spec == Init /\ [][Next]_vars

\* The same callers with the visitors of the prediction game, within one
\* second of the clock (nothing of the game reads it).
NextGame ==
    \/ \E p \in Pollers : PollBegin(p)
    \/ \E p \in Pollers, kind \in {"http", "exception"} : PollFailed(p, kind)
    \/ \E p \in Pollers, feed \in GameFeeds :
          Fits(feed, MaxGameRows) /\ PollFeed(p, feed)
    \/ \E p \in Pollers, tie \in TieOrders :
          \E stamps \in StampsOf(p, now) : Execute(p, tie, stamps)
    \/ \E p \in Pollers : LockTimeout(p)
    \/ \E p \in Pollers : DbCommit(p)
    \/ \E p \in Pollers : ScoreSelect(p)
    \/ \E p \in Pollers : ScoreApply(p)
    \/ \E u \in Usernames, c \in Cookies :
          Cardinality(users) < MaxUsers /\ Register(u, c)
    \/ \E r \in registering : RegisterBonus(r)
    \/ \E r \in registering : RegisterBonusLost(r)
    \/ \E u \in Usernames, m \in FormMatches, o \in FormOutcomes, g \in FormGoals :
          Cardinality(predictions) < MaxPredictions /\ Predict(u, m, o, g)

SpecGame == Init /\ [][NextGame]_vars

\* The prediction game across restarts of a serving process: the feed holds
\* match 1 or nothing, the visitors predict match 1.
NextRestart ==
    \/ \E p \in Pollers : PollBegin(p)
    \/ \E p \in Pollers, feed \in {<<>>, <<BaseRecord(1)>>} :
          Fits(feed, MaxGameRows) /\ PollFeed(p, feed)
    \/ \E p \in Pollers, tie \in TieOrders :
          \E stamps \in StampsOf(p, now) : Execute(p, tie, stamps)
    \/ \E p \in Pollers : LockTimeout(p)
    \/ \E p \in Pollers : DbCommit(p)
    \/ \E p \in Pollers : ScoreSelect(p)
    \/ \E p \in Pollers : ScoreApply(p)
    \/ \E p \in Pollers : ScoreLocked(p)
    \/ \E u \in Usernames, c \in Cookies :
          Cardinality(users) < MaxUsers /\ Register(u, c)
    \/ \E r \in registering : RegisterBonus(r)
    \/ \E r \in registering : RegisterBonusLost(r)
    \/ \E u \in Usernames, o \in FormOutcomes :
          Cardinality(predictions) < MaxPredictions /\ Predict(u, 1, o, <<0, 0>>)
    \/ pc["main"] = "serving" /\ Restart

SpecRestart == Init /\ [][NextRestart]_vars

\* The scheduler's job alone, on every feed of Feeds.
NextFeed ==
    \/ Tick
    \/ PollBegin("job")
    \/ \E feed \in Feeds : Fits(feed, MaxFeedRows) /\ PollFeed("job", feed)
    \/ \E tie \in TieOrders :
          \E stamps \in StampsOf("job", MaxClock) : Execute("job", tie, stamps)
    \/ DbCommit("job")
    \/ ScoreSelect("job")
    \/ ScoreApply("job")

SpecFeed == Init /\ [][NextFeed]_vars

\* The scheduler's job alone, on the feeds of TrimFeeds, past the cap.
NextTrim ==
    \/ Tick
    \/ PollBegin("job")
    \/ \E feed \in TrimFeeds : Fits(feed, MaxSnapshotId) /\ PollFeed("job", feed)
    \/ \E tie \in TieOrders :
          \E stamps \in StampsOf("job", MaxClock) : Execute("job", tie, stamps)
    \/ DbCommit("job")
    \/ ScoreSelect("job")
    \/ ScoreApply("job")

SpecTrim == Init /\ [][NextTrim]_vars

\* ------------------------------------------------- claims on SpecFeed
Busy == {"fetch", "write", "commit", "select", "apply"}

\* the rows a step adds to the table
Inserted == snapshots' \ snapshots

\* C2: every stored snapshot has an integer minute in [1, 120] and a
\* pressure index in [-100, 100], whatever kickoffs and scores the feed
\* delivered, the fallback minute 45 included.
C2_SnapshotRanges ==
    \A s \in snapshots : /\ s.minute \in 1..120
                         /\ s.pressure_index \in (-100 * Scale)..(100 * Scale)

\* C2: snapshots are stored with the fallback minute 45 (a kickoff that is
\* no date), with an end of the minute's range, and with a score whose
\* unclamped pressure is over 100.
C2_Witness ==
    /\ \E s \in snapshots : s.minute = 45 /\ matches[s.match_id].utc_date.kind # "iso"
    /\ \E s \in snapshots : s.minute \in {1, 120}
    /\ \E s \in snapshots : s.score_home = 5 /\ s.pressure_index = 100 * Scale

\* C5: a cycle whose fetch succeeded is never aborted by a record's kickoff:
\* it goes on to write every record of the processed feed, with one new
\* snapshot each, and commits them.
C5_KickoffNeverAborts ==
    [][\A p \in Pollers :
          (pc[p] = "write" /\ pc'[p] # "write" /\ ~is_demo[p])
          => /\ pc'[p] = "commit"
             /\ tx' # <<>>
             /\ \A id \in SeenIds(FilterTop(fetched[p])) :
                   /\ id \in DOMAIN tx'[1].db.matches
                   /\ \E r \in tx'[1].db.snapshots \ snapshots : r.match_id = id]_vars

\* ------------------------------------------------- claims on SpecTrim
RowsOf(rows, match_id) == Cardinality(MatchRows(rows, match_id))

\* C3: each match has at most the cap of snapshots; a match at the cap stays
\* at the cap; a step removes rows only of a match it leaves at the cap,
\* and every row it removes is no newer than any row it keeps of that match.
C3_Trimming ==
    /\ [](\A m \in MatchIds : RowsOf(snapshots, m) <= SnapshotCap)
    /\ [][\A m \in MatchIds :
            /\ RowsOf(snapshots, m) = SnapshotCap => RowsOf(snapshots', m) = SnapshotCap
            /\ RowsOf(snapshots', m) >= RowsOf(snapshots, m)
            /\ \A r \in MatchRows(snapshots, m) \ snapshots' :
                  /\ RowsOf(snapshots', m) = SnapshotCap
                  /\ \A q \in MatchRows(snapshots', m) : q.timestamp >= r.timestamp]_vars

\* C3: more rows than the cap were inserted for a match, which holds the cap
\* of them, the oldest gone, and the rows of another match are there.
C3_Witness ==
    \E m \in MatchIds, o \in MatchIds :
        /\ m # o
        /\ RowsOf(snapshots, m) = SnapshotCap
        /\ RowsOf(snapshots, o) >= 1
        /\ \E r \in MatchRows(snapshots, o) :
              \E q \in MatchRows(snapshots, m) : r.id < q.id
        /\ Cardinality(snapshots) < snapshot_seq

\* ------------------------------------------------- claims on SpecGame
\* C4: a cycle that finds the feed unavailable records an error status and
\* message and returns: the store (matches, snapshots, predictions, users)
\* is as before, nothing is selected for scoring, no transaction is opened,
\* and the scheduler's job is ready for its next run.
C4_FeedUnavailable ==
    [][\A p \in Pollers :
          (/\ pc[p] = "fetch" /\ pc'[p] # "fetch"
           /\ api_status'.status \in {"API Error", "Connection Error"})
          => /\ api_status'.error # NULL
             /\ UNCHANGED <<store, pending, tx>>
             /\ pc'[p] = IF p = "main" THEN "serving" ELSE "idle"]_vars

\* C4: the feed is unavailable while the store holds an active match and a
\* pending prediction on it, and the cycle has returned.
C4_Witness ==
    /\ api_status.status \in {"API Error", "Connection Error"}
    /\ \A p \in Pollers : pc[p] \notin Busy
    /\ \E q \in predictions :
          /\ q.status = "PENDING"
          /\ q.match_id \in DOMAIN matches
          /\ matches[q.match_id].status \in ActiveStatuses

\* ----------------------------------------------------- claims on Spec
\* the statuses the claim counts as active: in progress or about to start
ClaimActive == {"LIVE", "IN_PLAY", "PAUSED", "TIMED", "STARTING"}

\* C6: in a cycle whose fetch succeeded, every stored match that was active
\* (LIVE, IN_PLAY, PAUSED, TIMED, STARTING) and is absent from the processed
\* feed becomes FINISHED, and no match of the processed feed does.
C6_AbsentFinished ==
    [][\A p \in Pollers :
          (pc[p] = "write" /\ pc'[p] = "commit" /\ ~is_demo[p])
          => \A id \in DOMAIN matches :
                /\ (matches[id].status \in ClaimActive /\ id \notin seen_ids'[p])
                      => tx'[1].db.matches[id].status = "FINISHED"
                /\ (matches[id].status # "FINISHED" /\ id \in seen_ids'[p])
                      => tx'[1].db.matches[id].status # "FINISHED"]_vars

\* C7: a cycle in demo mode stores each of the two synthetic records as a
\* match (id, names, status, score, kickoff) with one new snapshot.
C7_DemoStored ==
    [][\A p \in Pollers :
          (pc[p] = "write" /\ pc'[p] = "commit" /\ is_demo[p])
          => \A i \in 1..Len(fetched[p]) :
                LET m == fetched[p][i]
                IN  /\ m.id \in DOMAIN tx'[1].db.matches
                    /\ tx'[1].db.matches[m.id].home_team = m.homeTeam
                    /\ tx'[1].db.matches[m.id].away_team = m.awayTeam
                    /\ tx'[1].db.matches[m.id].status = m.status
                    /\ tx'[1].db.matches[m.id].score_home = m.home[1]
                    /\ tx'[1].db.matches[m.id].score_away = m.away[1]
                    /\ \E r \in tx'[1].db.snapshots \ snapshots :
                          r.match_id = m.id]_vars

\* C8: a stored snapshot keeps its match id, timestamp, minute, score and
\* pressure index for as long as it is stored; a new row has a new id; and
\* the rows a reader is given are rows of the store, never those of an
\* open transaction.
C8_AppendOnly ==
    [][/\ \A r \in snapshots, q \in snapshots' : r.id = q.id => r = q
       /\ \A q \in Inserted : q.id > snapshot_seq
       /\ tx' # <<>> =>
             \A r \in snapshots, q \in tx'[1].db.snapshots : r.id = q.id => r = q
       /\ view' # view => \A i \in 1..Len(view') : view'[i] \in snapshots]_vars

\* C8: a reader holds the rows of a match while a cycle's transaction with a
\* further row of that match is open, and a row the reader holds was
\* written by an earlier cycle over a previous snapshot.
C8_Witness ==
    /\ view # <<>>
    /\ \A i \in 1..Len(view) : view[i] \in snapshots
    /\ tx # <<>>
    /\ \E r \in tx[1].db.snapshots \ snapshots : r.match_id = view[1].match_id
    /\ Len(view) >= 2

\* C9: the start-up call and the scheduler's job are never inside
\* poll_live_matches at the same time.
C9_OneCycleAtATime ==
    ~(pc["main"] \in Busy /\ pc["job"] \in Busy)

\* the snapshot of a match stored last before a step: the one of highest id
Preceding(match_id) ==
    LET before == MatchRows(snapshots, match_id)
    IN  IF before = {} THEN <<>>
        ELSE <<CHOOSE r \in before : \A q \in before : q.id <= r.id>>

\* C12: the trend term of every snapshot a cycle writes is taken against the
\* immediately preceding stored snapshot of its match (+40 if the home score
\* is higher than there, -40 if the away score is, 0 without one), so a goal
\* shows in the first snapshot with the new score only.
C12_TrendAgainstPreceding ==
    [][\A p \in Pollers :
          (pc[p] = "write" /\ pc'[p] = "commit")
          => \A r \in tx'[1].db.snapshots \ snapshots :
                90 * r.pressure_index
                  = Scale * ClaimPressure90(r.minute, r.score_home, r.score_away,
                                            Preceding(r.match_id))]_vars

\* ------------------------------------ claims on SpecRestart and SpecGame
RECURSIVE SumAwarded(_)
SumAwarded(preds) ==
    IF preds = {} THEN 0
    ELSE LET q == CHOOSE x \in preds : TRUE
         IN  q.points_awarded + SumAwarded(preds \ {q})

\* what the rows of referrals and predictions account a user for
AccountedPoints(u) ==
    50 * Cardinality({f \in referrals : f.referrer_user_id = u.id})
    + SumAwarded({q \in predictions : q.user_id = u.id /\ q.status = "SCORED"})

\* C13: a prediction is scored at most once: a SCORED prediction stays as it
\* is, whatever its match does later, and every user's points are 50 per
\* referral row naming them as referrer plus the points_awarded of their
\* SCORED predictions.
C13_ScoredOnce ==
    /\ [](\A u \in users : u.points = AccountedPoints(u))
    /\ [][\A q \in predictions : q.status = "SCORED" => q \in predictions']_vars

\* the statuses predict_page lists as available for prediction
Available == {"LIVE", "IN_PLAY", "PAUSED", "SCHEDULED", "TIMED"}

\* C14: a prediction row is created only for a stored match whose status at
\* that time is LIVE, IN_PLAY, PAUSED, SCHEDULED or TIMED; none for a FINISHED
\* or unknown match, so none such earns points.
C14_OnlyAvailableMatches ==
    [][\A q \in predictions' \ predictions :
          /\ q.match_id \in DOMAIN matches
          /\ matches[q.match_id].status \in Available]_vars

====
